---- MODULE Spec2Model ----
(***************************************************************************)
(* A model of ss.py (brbsix/ss): the OpenSubtitles movie hash, the         *)
(* subtitle file name resolution, the search / selection loop, movie       *)
(* discovery and the download / merge phases of main.                      *)
(*                                                                         *)
(* Text is modelled as sequences of one-character strings, so that the     *)
(* path and formatting functions are computed character by character.      *)
(* Python integers are unbounded; the 64-bit arithmetic of the hash is     *)
(* modelled on a little-endian byte representation (8 bytes plus the       *)
(* part of the integer above 2^64), because 2^64 does not fit the model    *)
(* checker's integers.                                                     *)
(***************************************************************************)
EXTENDS Integers, Sequences, FiniteSets, TLC

VARIABLES
    \* ---- calculate_hash_for_file / obtain_movie_hash_query
    hpc,        \* position in calculate_hash_for_file and its caller
    filesize,   \* os.path.getsize(name)
    content,    \* the bytes of the file
    handle,     \* the file object f: "none", "open", "closed"
    fpos,       \* the file position of f
    hash,       \* the local variable hash (a Python integer)
    x,          \* iterations done in the current for loop
    retval,     \* the value returned by calculate_hash_for_file
    hquery,     \* the dict built by obtain_movie_hash_query
    \* ---- the file system seen by os.path.isfile / isdir / listdir
    files,      \* the paths that are regular files
    dirs,       \* the paths that are directories
    \* ---- obtain_subtitle_filename
    rpc,                \* position in obtain_subtitle_filename
    movie_filename,     \* its arguments
    language,
    subtitle_ext,
    subtitle_filename,  \* its result
    \* ---- query_open_subtitles / find_subtitles
    qpc,                \* position in query_open_subtitles / find_subtitles
    movie_filenames,    \* the argument
    token,              \* the token LogIn returned
    rpcLog,             \* the calls the server has received, in order
    qi,                 \* index of the movie of the current iteration
    result,             \* the dict result: movie -> filtered results
    pending,            \* an exception is propagating
    yielded,            \* what find_subtitles has yielded
    \* ---- find_movie_files
    fpc,                \* "run", "done" or "raised"
    input_names,        \* the arguments
    recursive,
    stack,              \* the frames of the nested generators
    found,              \* the paths yielded to the caller, in order
    \* ---- main
    mpc,                \* position in main
    input_filenames,    \* the movies to search subtitles for
    mkv,                \* config.mkv
    subtitles,          \* sorted(find_subtitles(...))
    mi,                 \* index in the current loop
    matches,            \* the list matches
    downloads,          \* the paths download_subtitle has written, in order
    merges,             \* the calls of embed_mkv, in order
    failures,           \* the list failures
    stream,             \* the lines printed
    exit_code           \* what main returned, -1 before

hashVars == <<hpc, filesize, content, handle, fpos, hash, x, retval, hquery>>
fsVars == <<files, dirs>>
resolveVars == <<rpc, movie_filename, language, subtitle_ext, subtitle_filename>>

queryVars == <<qpc, movie_filenames, token, rpcLog, qi, result, pending, yielded>>

findVars == <<fpc, input_names, recursive, stack, found>>

mainVars == <<mpc, input_filenames, mkv, subtitles, mi, matches, downloads, merges,
              failures, stream, exit_code>>

vars == <<hashVars, fsVars, resolveVars, queryVars, findVars, mainVars>>

notHash == <<fsVars, resolveVars, queryVars, findVars, mainVars>>
notResolve == <<hashVars, queryVars, findVars, mainVars>>
notQuery == <<hashVars, fsVars, resolveVars, findVars, mainVars>>
notFind == <<hashVars, resolveVars, queryVars, mainVars>>
notMain == <<hashVars, queryVars, findVars>>

(***************************************************************************)
(* Bounds of the model.                                                    *)
(***************************************************************************)
\* The size in bytes of each of the two hashed windows. The program uses
\* 65536 (8192 words); the model keeps the structure with a small window.
BlockSize == 16
\* How far beyond 2 * BlockSize the modelled file sizes go.
MaxExtra == 5
\* The most movies handed to query_open_subtitles.
MaxMovies == 2
\* The most results in one answer of the search server.
MaxResults == 2
\* The most paths given to find_movie_files.
MaxInputs == 2

(***************************************************************************)
(* Text helpers.                                                           *)
(***************************************************************************)
HexDigits == <<"0","1","2","3","4","5","6","7","8","9","a","b","c","d","e","f">>
DecDigits == <<"0","1","2","3","4","5","6","7","8","9">>

RECURSIVE Concat(_)
Concat(ss) == IF ss = <<>> THEN <<>> ELSE Head(ss) \o Concat(Tail(ss))

\* str(n) for a non-negative integer n
RECURSIVE PyStrNat(_)
PyStrNat(n) ==
    IF n < 10 THEN <<DecDigits[n + 1]>>
    ELSE PyStrNat(n \div 10) \o <<DecDigits[(n % 10) + 1]>>

\* "%x" % n for a non-negative integer n that fits the checker's integers
RECURSIVE PyHexNat(_)
PyHexNat(n) ==
    IF n < 16 THEN <<HexDigits[n + 1]>>
    ELSE PyHexNat(n \div 16) \o <<HexDigits[(n % 16) + 1]>>

(***************************************************************************)
(* Python integers around 64 bits: the integer lo + 2^64 * hi, where lo    *)
(* is given by 8 bytes, least significant first.                           *)
(***************************************************************************)
bytesize == 8

RECURSIVE LEBytes(_, _)
LEBytes(n, k) ==
    IF k = 0 THEN <<>> ELSE <<n % 256>> \o LEBytes(n \div 256, k - 1)

\* a small non-negative integer (a file size) as a Python integer
PyInt(n) == [lo |-> LEBytes(n, bytesize), hi |-> 0]

\* byte-wise addition with carry; the last element of the result is the
\* carry out of the most significant byte
RECURSIVE AddBytes(_, _, _)
AddBytes(a, b, c) ==
    IF a = <<>> THEN <<c>>
    ELSE LET s == Head(a) + Head(b) + c
         IN  <<s % 256>> \o AddBytes(Tail(a), Tail(b), s \div 256)

\* hash += l_value
PyAdd(a, b) ==
    LET r == AddBytes(a.lo, b.lo, 0)
    IN  [lo |-> SubSeq(r, 1, bytesize), hi |-> a.hi + b.hi + r[bytesize + 1]]

\* hash & 0xFFFFFFFFFFFFFFFF
PyAnd64NoMask(a) == a
PyAnd64(a) == [lo |-> a.lo, hi |-> 0]

\* struct.unpack('q', buffer): a signed 64-bit integer, two's complement,
\* least significant byte first
StructUnpackQ(buffer) ==
    [lo |-> buffer, hi |-> IF buffer[bytesize] >= 128 THEN -1 ELSE 0]

\* the 16 hexadecimal digits of the low 64 bits, most significant first
HexOfBytes(lo) ==
    Concat([k \in 1..Len(lo) |->
              LET b == lo[Len(lo) + 1 - k]
              IN  <<HexDigits[(b \div 16) + 1], HexDigits[(b % 16) + 1]>>])

\* two's complement negation of 8 bytes (2^64 - lo, for lo > 0)
NegBytes(lo) ==
    SubSeq(AddBytes([k \in 1..Len(lo) |-> 255 - lo[k]],
                    [k \in 1..Len(lo) |-> 0], 1), 1, Len(lo))

RECURSIVE StripZeros(_)
StripZeros(s) ==
    IF Len(s) > 1 /\ Head(s) = "0" THEN StripZeros(Tail(s)) ELSE s

RECURSIVE ZeroPad(_, _)
ZeroPad(s, w) == IF Len(s) >= w THEN s ELSE ZeroPad(<<"0">> \o s, w)

\* "%016x" % hash: at least 16 characters, zero padded, lower case; a
\* negative integer is rendered with a leading minus sign
PyFormat016x(a) ==
    LET zero == [k \in 1..bytesize |-> 0]
    IN  IF a.hi = 0 THEN HexOfBytes(a.lo)
        ELSE IF a.hi > 0 THEN PyHexNat(a.hi) \o HexOfBytes(a.lo)
        ELSE LET mhi  == IF a.lo = zero THEN -a.hi ELSE -a.hi - 1
                 mlo  == IF a.lo = zero THEN zero ELSE NegBytes(a.lo)
                 digs == IF mhi = 0 THEN StripZeros(HexOfBytes(mlo))
                         ELSE PyHexNat(mhi) \o HexOfBytes(mlo)
             IN  <<"-">> \o ZeroPad(digs, 15)

(***************************************************************************)
(* calculate_hash_for_file(name) and obtain_movie_hash_query.              *)
(***************************************************************************)
\* The 8-byte words the modelled files are made of: 0, -1, the largest and
\* the smallest signed 64-bit integer.
ChunkVals ==
    { <<0, 0, 0, 0, 0, 0, 0, 0>>,
      <<255, 255, 255, 255, 255, 255, 255, 255>>,
      <<255, 255, 255, 255, 255, 255, 255, 127>>,
      <<0, 0, 0, 0, 0, 0, 0, 128>> }

FileSizes ==
    {0, BlockSize, 2 * BlockSize - 1} \cup (2 * BlockSize .. 2 * BlockSize + MaxExtra)

MaxFileSize == 2 * BlockSize + MaxExtra
NSlots == (MaxFileSize + bytesize - 1) \div bytesize

SizeError == <<"S","i","z","e","E","r","r","o","r">>
Language == <<"e","n","g">>

\* f.read(n) at position pos
FileRead(pos, n) ==
    SubSeq(content, pos + 1, IF pos + n <= Len(content) THEN pos + n ELSE Len(content))

Max(a, b) == IF a >= b THEN a ELSE b

\* the hash variables of a specification that does not run the hash
HashIdle ==
    /\ hpc = "idle"
    /\ filesize = 0
    /\ content = <<>>
    /\ handle = "none"
    /\ fpos = 0
    /\ hash = [lo |-> <<0, 0, 0, 0, 0, 0, 0, 0>>, hi |-> 0]
    /\ x = 0
    /\ retval = <<>>
    /\ hquery = [moviehash |-> <<>>, moviebytesize |-> <<>>, sublanguageid |-> <<>>]

FsIdle ==
    /\ files = {}
    /\ dirs = {}

ResolveIdle ==
    /\ rpc = "idle"
    /\ movie_filename = <<>>
    /\ language = <<>>
    /\ subtitle_ext = <<>>
    /\ subtitle_filename = <<>>

QueryIdle ==
    /\ qpc = "idle"
    /\ movie_filenames = <<>>
    /\ token = ""
    /\ rpcLog = <<>>
    /\ qi = 0
    /\ result = <<>>
    /\ pending = FALSE
    /\ yielded = <<>>

FindIdle ==
    /\ fpc = "idle"
    /\ input_names = <<>>
    /\ recursive = FALSE
    /\ stack = <<>>
    /\ found = <<>>

MainIdle ==
    /\ mpc = "idle"
    /\ input_filenames = <<>>
    /\ mkv = FALSE
    /\ subtitles = <<>>
    /\ mi = 0
    /\ matches = <<>>
    /\ downloads = <<>>
    /\ merges = <<>>
    /\ failures = <<>>
    /\ stream = <<>>
    /\ exit_code = -1

HashInit ==
    /\ FsIdle
    /\ ResolveIdle
    /\ QueryIdle
    /\ FindIdle
    /\ MainIdle
    /\ hpc = "start"
    /\ filesize \in FileSizes
    /\ \E slots \in [1..NSlots -> ChunkVals] :
          content = SubSeq(Concat(slots), 1, filesize)
    /\ handle = "none"
    /\ fpos = 0
    /\ hash = PyInt(0)
    /\ x = 0
    /\ retval = <<>>
    /\ hquery = [moviehash |-> <<>>, moviebytesize |-> <<>>, sublanguageid |-> <<>>]

\* f = open(name, "rb")
HashOpen ==
    /\ hpc = "start"
    /\ \/ /\ handle' = "open"
          /\ hpc' = "size"
       \/ /\ handle' = handle
          /\ hpc' = "raised"
    /\ fpos' = 0
    /\ UNCHANGED <<filesize, content, hash, x, retval, hquery>>
    /\ UNCHANGED notHash

\* filesize = os.path.getsize(name); hash = filesize;
\* if filesize < 65536 * 2: return "SizeError"
HashSize ==
    /\ hpc = "size"
    /\ hash' = PyInt(filesize)
    /\ IF filesize < BlockSize * 2
       THEN /\ retval' = SizeError
            /\ hpc' = "returned"
       ELSE /\ retval' = retval
            /\ hpc' = "head"
    /\ x' = 0
    /\ UNCHANGED <<filesize, content, handle, fpos, hquery>>
    /\ UNCHANGED notHash

\* one iteration of either for loop: read, unpack, add, mask
HashLoopBody ==
    LET buffer == FileRead(fpos, bytesize)
    IN  /\ x < BlockSize \div bytesize
        /\ fpos' = fpos + Len(buffer)
        /\ IF Len(buffer) = bytesize
           THEN /\ hash' = PyAnd64(PyAdd(hash, StructUnpackQ(buffer)))
                /\ x' = x + 1
                /\ hpc' = hpc
           ELSE \* struct.error: unpack requires 8 bytes
                /\ hash' = hash
                /\ x' = x
                /\ hpc' = "raised"
        /\ UNCHANGED <<filesize, content, handle, retval, hquery>>
        /\ UNCHANGED notHash

HashHead ==
    /\ hpc = "head"
    /\ HashLoopBody

\* f.seek(max(0, filesize - 65536), 0)
HashSeek ==
    /\ hpc = "head"
    /\ x = BlockSize \div bytesize
    /\ fpos' = Max(0, filesize - BlockSize)
    /\ x' = 0
    /\ hpc' = "tail"
    /\ UNCHANGED <<filesize, content, handle, hash, retval, hquery>>
    /\ UNCHANGED notHash

HashTail ==
    /\ hpc = "tail"
    /\ HashLoopBody

\* f.read or f.seek raises IOError / OSError
HashIOError ==
    /\ hpc \in {"head", "tail"}
    /\ hpc' = "raised"
    /\ UNCHANGED <<filesize, content, handle, fpos, hash, x, retval, hquery>>
    /\ UNCHANGED notHash

\* f.close(); returnedhash = "%016x" % hash; return returnedhash
HashFinish ==
    /\ hpc = "tail"
    /\ x = BlockSize \div bytesize
    /\ handle' = "closed"
    /\ retval' = PyFormat016x(hash)
    /\ hpc' = "returned"
    /\ UNCHANGED <<filesize, content, fpos, hash, x, hquery>>
    /\ UNCHANGED notHash

\* obtain_movie_hash_query: the dict around the returned hash
MovieHashQuery ==
    /\ hpc = "returned"
    /\ hquery' = [moviehash     |-> retval,
                  moviebytesize |-> PyStrNat(filesize),
                  sublanguageid |-> Language]
    /\ hpc' = "query"
    /\ UNCHANGED <<filesize, content, handle, fpos, hash, x, retval>>
    /\ UNCHANGED notHash

HashNext ==
    \/ HashOpen
    \/ HashSize
    \/ HashHead
    \/ HashSeek
    \/ HashTail
    \/ HashIOError
    \/ HashFinish
    \/ MovieHashQuery

SpecHash == HashInit /\ [][HashNext]_vars

(***************************************************************************)
(* Properties of calculate_hash_for_file.                                  *)
(***************************************************************************)
NChunks == BlockSize \div bytesize

RECURSIVE SumSeq(_)
SumSeq(s) == IF s = <<>> THEN 0 ELSE Head(s) + SumSeq(Tail(s))

\* the j-th 8-byte word of the window that starts at byte offset off
WordAt(off, j) == SubSeq(content, off + bytesize * (j - 1) + 1, off + bytesize * j)

\* the sum, byte column by byte column, of the file size and of the words of
\* the first window and of the window at max(0, size - BlockSize)
ColumnSum(k) ==
    LEBytes(filesize, bytesize)[k]
    + SumSeq([j \in 1..NChunks |-> WordAt(0, j)[k]])
    + SumSeq([j \in 1..NChunks |-> WordAt(Max(0, filesize - BlockSize), j)[k]])

\* carry propagation over the columns; the last element is what lies above
\* 2^64 and is dropped by "modulo 2^64"
RECURSIVE Propagate(_, _)
Propagate(cols, c) ==
    IF cols = <<>> THEN <<c>>
    ELSE <<(Head(cols) + c) % 256>> \o Propagate(Tail(cols), (Head(cols) + c) \div 256)

ExpectedBytes == Propagate([k \in 1..bytesize |-> ColumnSum(k)], 0)

RECURSIVE ExpectedHex(_, _)
ExpectedHex(bytes, k) ==
    IF k = 0 THEN <<>>
    ELSE <<HexDigits[(bytes[k] \div 16) + 1], HexDigits[(bytes[k] % 16) + 1]>>
         \o ExpectedHex(bytes, k - 1)

LowerHexChars == {HexDigits[i] : i \in 1..16}

\* C1: for every file smaller than 2 * BlockSize bytes (131072 in the
\* program) calculate_hash_for_file fails; it never returns a value, and no
\* value of it is placed in a query as the moviehash.
CE_C1 ==
    filesize < 2 * BlockSize =>
        /\ hpc \notin {"returned", "query"}
        /\ hquery.moviehash = <<>>

\* C2: for every file of at least 2 * BlockSize bytes the accumulator is in
\* [0, 2^64) after every addition, and the value returned is the 16 lower
\* case hexadecimal digits of (size + the words of the first window + the
\* words of the window at max(0, size - BlockSize)) modulo 2^64.
Thm_C2 ==
    /\ hpc \in {"head", "tail", "returned", "query", "raised"} =>
          /\ hash.hi = 0
          /\ Len(hash.lo) = bytesize
          /\ \A k \in 1..bytesize : hash.lo[k] \in 0..255
    /\ (hpc \in {"returned", "query"} /\ filesize >= 2 * BlockSize) =>
          /\ retval = ExpectedHex(ExpectedBytes, bytesize)
          /\ Len(retval) = 16
          /\ \A i \in 1..Len(retval) : retval[i] \in LowerHexChars

\* a file of an odd size whose sum exceeds 2^64 has been hashed
Witness_C2 ==
    /\ hpc = "returned"
    /\ filesize > 2 * BlockSize
    /\ filesize % bytesize # 0
    /\ ExpectedBytes[bytesize + 1] > 0

\* C9: after calculate_hash_for_file has returned or raised, the handle it
\* opened is closed.
CE_C9 ==
    hpc \in {"returned", "query", "raised"} => handle # "open"

(***************************************************************************)
(* os.path (posixpath) on character sequences.                             *)
(***************************************************************************)
\* s.rfind(c) + 1: the last position of c in s, 0 when c is not in s
RFind(s, c) ==
    LET at == {i \in 1..Len(s) : s[i] = c}
    IN  IF at = {} THEN 0 ELSE CHOOSE i \in at : \A j \in at : j <= i

\* s.rstrip('/')
RECURSIVE RStripSep(_)
RStripSep(s) ==
    IF s # <<>> /\ s[Len(s)] = "/" THEN RStripSep(SubSeq(s, 1, Len(s) - 1)) ELSE s

\* os.path.basename(p)
OsPathBasename(p) == SubSeq(p, RFind(p, "/") + 1, Len(p))

\* os.path.dirname(p)
OsPathDirname(p) ==
    LET head == SubSeq(p, 1, RFind(p, "/"))
    IN  IF head # <<>> /\ (\E i \in 1..Len(head) : head[i] # "/")
        THEN RStripSep(head)
        ELSE head

\* os.path.splitext(p): <<root, ext>>; leading dots of the last component
\* do not start an extension
OsPathSplitext(p) ==
    LET sepIndex == RFind(p, "/")
        dotIndex == RFind(p, ".")
    IN  IF /\ dotIndex > sepIndex
           /\ \E k \in (sepIndex + 1)..(dotIndex - 1) : p[k] # "."
        THEN <<SubSeq(p, 1, dotIndex - 1), SubSeq(p, dotIndex, Len(p))>>
        ELSE <<p, <<>> >>

\* os.path.join(a, b)
OsPathJoin(a, b) ==
    IF b # <<>> /\ b[1] = "/" THEN b
    ELSE IF a = <<>> \/ a[Len(a)] = "/" THEN a \o b
    ELSE a \o <<"/">> \o b

\* os.path.isfile(p), os.path.isdir(p)
OsPathIsfile(p) == p \in files
OsPathIsdir(p) == p \in dirs

(***************************************************************************)
(* obtain_subtitle_filename(movie_filename, language, subtitle_ext).       *)
(***************************************************************************)
\* a version that does not test the second candidate
ObtainSubtitleFilenameOneTest(movie, lang, ext) ==
    LET dirname  == OsPathDirname(movie)
        basename == OsPathSplitext(OsPathBasename(movie))[1]
        first    == OsPathJoin(dirname, basename \o ext)
    IN  IF ~OsPathIsfile(first) THEN first
        ELSE OsPathJoin(dirname, basename \o <<".">> \o lang \o <<".">> \o <<"s", "s">> \o ext)

ObtainSubtitleFilename(movie, lang, ext) ==
    LET dirname   == OsPathDirname(movie)
        basename  == OsPathSplitext(OsPathBasename(movie))[1]
        filenames == << OsPathJoin(dirname, basename \o ext),
                        OsPathJoin(dirname, basename \o <<".">> \o lang \o ext) >>
    IN  IF ~OsPathIsfile(filenames[1]) THEN filenames[1]
        ELSE IF ~OsPathIsfile(filenames[2]) THEN filenames[2]
        ELSE OsPathJoin(dirname, basename \o <<".">> \o lang \o <<".">> \o <<"s", "s">> \o ext)

\* The movie paths of the model, by their parts: directory, base name
\* without its extension, extension.
MovieDirs == { <<>>, <<"d">>, <<"d", ".", "x">>, <<"/", "v">> }
MovieStems == { <<"m">>, <<"m", ".", "x">>, <<".", "h">> }
MovieExts == { <<".", "a", "v", "i">>, <<".", "m", "k", "v">>, <<>> }

MovieParts ==
    { p \in [dir : MovieDirs, stem : MovieStems, ext : MovieExts] :
        \* without an extension the last dot of the stem would start one
        p.ext = <<>> => p.stem \in { <<"m">>, <<".", "h">> } }

DirPrefix(dir) == IF dir = <<>> THEN <<>> ELSE dir \o <<"/">>

PathOf(p) == DirPrefix(p.dir) \o p.stem \o p.ext

Languages == { <<"e", "n", "g">>, <<"p", "b">> }
SubtitleExts == { <<".", "s", "r", "t">>, <<".", "s", "u", "b">> }

\* the three candidate names, from the parts of the movie path
Candidate1(p, lang, ext) == DirPrefix(p.dir) \o p.stem \o ext
Candidate2(p, lang, ext) == DirPrefix(p.dir) \o p.stem \o <<".">> \o lang \o ext
Candidate3(p, lang, ext) ==
    DirPrefix(p.dir) \o p.stem \o <<".">> \o lang \o <<".", "s", "s">> \o ext

ResolveInit ==
    /\ HashIdle
    /\ QueryIdle
    /\ FindIdle
    /\ MainIdle
    /\ rpc = "start"
    /\ language \in Languages
    /\ subtitle_ext \in SubtitleExts
    /\ subtitle_filename = <<>>
    /\ \E p \in MovieParts :
          /\ movie_filename = PathOf(p)
          /\ LET cands == { Candidate1(p, language, subtitle_ext),
                            Candidate2(p, language, subtitle_ext),
                            Candidate3(p, language, subtitle_ext) }
             IN  \E kind \in [cands -> {"absent", "file", "dir"}] :
                    /\ files = {movie_filename} \cup {c \in cands : kind[c] = "file"}
                    /\ dirs = {c \in cands : kind[c] = "dir"}

\* one call of obtain_subtitle_filename
Resolve ==
    /\ rpc = "start"
    /\ subtitle_filename' = ObtainSubtitleFilename(movie_filename, language, subtitle_ext)
    /\ rpc' = "returned"
    /\ UNCHANGED <<movie_filename, language, subtitle_ext, files, dirs>>
    /\ UNCHANGED notResolve

ResolveNext == Resolve

SpecResolve == ResolveInit /\ [][ResolveNext]_vars

\* C3: obtain_subtitle_filename returns <dir>/<basename><ext> if that is
\* not an existing file, otherwise <dir>/<basename>.<language><ext> if that
\* is not an existing file, otherwise <dir>/<basename>.<language>.ss<ext>
\* whether or not it exists; it never returns one of the first two when it
\* exists as a file.
Thm_C3 ==
    rpc = "returned" =>
        \A p \in MovieParts :
            PathOf(p) = movie_filename =>
                LET c1 == Candidate1(p, language, subtitle_ext)
                    c2 == Candidate2(p, language, subtitle_ext)
                    c3 == Candidate3(p, language, subtitle_ext)
                IN  /\ subtitle_filename =
                          IF c1 \notin files THEN c1
                          ELSE IF c2 \notin files THEN c2
                          ELSE c3
                    /\ subtitle_filename \in {c1, c2} => subtitle_filename \notin files

\* the third name was returned although it exists, for a movie in a
\* directory whose name has a dot
Witness_C3 ==
    /\ rpc = "returned"
    /\ subtitle_filename \in files
    /\ subtitle_filename # movie_filename
    /\ OsPathDirname(movie_filename) = <<"d", ".", "x">>

(***************************************************************************)
(* query_open_subtitles and find_subtitles, against a search server whose  *)
(* calls are recorded in rpcLog.                                           *)
(***************************************************************************)
None == <<"None">>

\* the movies handed to query_open_subtitles, in order
AllMovies ==
    << <<"a", ".", "a", "v", "i">>,
       <<"b", ".", "m", "k", "v">>,
       <<"c", ".", "m", "p", "4">>,
       <<"d", ".", "m", "p", "g">> >>

Tokens == {"tokA", "tokB"}

\* what guessit.guess_file_info may return for a file name
Guesses ==
    { [type |-> "episode", series |-> <<"S">>, season |-> 1, episodeNumber |-> 2],
      [type |-> "episode", series |-> <<"S">>, title |-> <<"T">>, season |-> 1],
      [type |-> "movie", title |-> <<"T">>, year |-> 1999] }

\* the search results the server may return: season 1 episode 2 written
\* with a leading zero, and season 1 episode 3
ResultPool ==
    { [SeriesSeason |-> <<"0", "1">>, SeriesEpisode |-> <<"2">>,
       SubDownloadLink |-> <<"u", "1">>, SubFormat |-> <<"s", "r", "t">>],
      [SeriesSeason |-> <<"1">>, SeriesEpisode |-> <<"3">>,
       SubDownloadLink |-> <<"u", "2">>, SubFormat |-> <<"s", "u", "b">>] }

RECURSIVE SeqsUpTo(_, _)
SeqsUpTo(S, n) ==
    IF n = 0 THEN { <<>> }
    ELSE LET shorter == SeqsUpTo(S, n - 1)
         IN  shorter \cup { Append(s, e) : s \in shorter, e \in S }

\* response['data']: False (or an empty list) when nothing was found, both
\* modelled by the empty sequence, else a list of results
NoData == <<>>
ResponseData == SeqsUpTo(ResultPool, MaxResults)

\* what calculate_hash_for_file returns to obtain_movie_hash_query
HashValues == { <<"0","0","0","0","0","0","0","0","0","0","0","0","0","0","2","a">> }

\* int(s) for a string of decimal digits
DigitValue(c) == CHOOSE v \in 0..9 : DecDigits[v + 1] = c

RECURSIVE PyIntOfStr(_)
PyIntOfStr(s) ==
    IF s = <<>> THEN 0
    ELSE 10 * PyIntOfStr(SubSeq(s, 1, Len(s) - 1)) + DigitValue(s[Len(s)])

\* "if guess.get(k)": the key is there and its value is not empty or zero
HasValue(d, k) ==
    /\ k \in DOMAIN d
    /\ IF k = "year" THEN d[k] # 0 ELSE d[k] # <<>>

\* '"%s"' % guess.get(k)
Quoted(k, v) == <<"\"">> \o (IF k = "year" THEN PyStrNat(v) ELSE v) \o <<"\"">>

\* ' '.join(result) over the parts that guess has
RECURSIVE ExtractQuery(_, _)
ExtractQuery(guess, parts) ==
    IF parts = <<>> THEN <<>>
    ELSE LET rest == ExtractQuery(guess, Tail(parts))
             k    == Head(parts)
         IN  IF ~HasValue(guess, k) THEN rest
             ELSE IF rest = <<>> THEN Quoted(k, guess[k])
             ELSE Quoted(k, guess[k]) \o <<" ">> \o rest

\* obtain_guessit_query, given what guessit guessed
ObtainGuessitQuery(guess, movie, lang) ==
    LET base == [sublanguageid |-> lang]
    IN  IF guess.type = "episode"
        THEN LET q  == base @@ [query |-> ExtractQuery(guess, <<"series", "title", "releaseGroup">>)]
                 qs == IF "season" \in DOMAIN guess
                       THEN q @@ [season |-> guess.season] ELSE q
             IN  IF "episodeNumber" \in DOMAIN guess
                 THEN qs @@ [episode |-> guess.episodeNumber] ELSE qs
        ELSE IF guess.type = "movie"
        THEN base @@ [query |-> ExtractQuery(guess, <<"title", "year">>)]
        ELSE base @@ [query |-> OsPathBasename(movie)]

\* obtain_movie_hash_query, given what calculate_hash_for_file returned
ObtainMovieHashQuery(h, size, lang) ==
    [moviehash |-> h, moviebytesize |-> PyStrNat(size), sublanguageid |-> lang]

\* a filter that compares the season alone
FilterBadResultsSeasonOnly(search_results, guessit_query) ==
    IF "season" \in DOMAIN guessit_query /\ "episode" \in DOMAIN guessit_query
    THEN LET Good(r) == PyIntOfStr(r.SeriesSeason) = guessit_query.season
         IN  SelectSeq(search_results, Good)
    ELSE search_results

\* filter_bad_results(search_results, guessit_query)
FilterBadResults(search_results, guessit_query) ==
    IF "season" \in DOMAIN guessit_query /\ "episode" \in DOMAIN guessit_query
    THEN LET Good(r) ==
                 <<PyIntOfStr(r.SeriesSeason), PyIntOfStr(r.SeriesEpisode)>>
                     = <<guessit_query.season, guessit_query.episode>>
         IN  SelectSeq(search_results, Good)
    ELSE search_results

\* a call received by the server: its arguments, and whether it answered
\* (with data, for a search) or failed
LogEntry(op, tok, queries, answered, data) ==
    [op |-> op, token |-> tok, queries |-> queries, answered |-> answered, data |-> data]

QueryInit ==
    /\ HashIdle
    /\ FsIdle
    /\ ResolveIdle
    /\ FindIdle
    /\ MainIdle
    /\ qpc = "start"
    /\ \E n \in 1..MaxMovies : movie_filenames = SubSeq(AllMovies, 1, n)
    /\ token = ""
    /\ rpcLog = <<>>
    /\ qi = 0
    /\ result = <<>>
    /\ pending = FALSE
    /\ yielded = <<>>

\* server.LogIn(...); token = login_info['token']
QLogIn ==
    /\ qpc = "start"
    /\ \/ \E t \in Tokens :
             /\ token' = t
             /\ rpcLog' = Append(rpcLog, LogEntry("LogIn", t, <<>>, TRUE, NoData))
             /\ qpc' = "loop"
             /\ qi' = 1
       \/ /\ qpc' = "raised"
          /\ UNCHANGED <<token, rpcLog, qi>>
    /\ UNCHANGED <<movie_filenames, result, pending, yielded>>
    /\ UNCHANGED notQuery

\* a loop that leaves after its first iteration
QIterateOnce ==
    /\ qpc = "loop"
    /\ qi <= Len(movie_filenames)
    /\ LET movie == movie_filenames[qi]
       IN  \E guess \in Guesses, h \in HashValues, data \in ResponseData :
              LET guessit_query  == ObtainGuessitQuery(guess, movie, Language)
                  search_queries == <<guessit_query,
                                      ObtainMovieHashQuery(h, 2 * BlockSize, Language)>>
              IN  /\ rpcLog' = Append(rpcLog,
                                 LogEntry("SearchSubtitles", token, search_queries, TRUE, data))
                  /\ result' = IF data # NoData
                               THEN [m \in DOMAIN result \cup {movie} |->
                                       IF m = movie
                                       THEN FilterBadResults(data, guessit_query)
                                       ELSE result[m]]
                               ELSE result
                  /\ qi' = Len(movie_filenames) + 1
                  /\ UNCHANGED <<qpc, pending>>
    /\ UNCHANGED <<movie_filenames, token, yielded>>
    /\ UNCHANGED notQuery

\* a loop body whose errors leave the function without the finally block
QIterateNoFinally ==
    /\ qpc = "loop"
    /\ qi <= Len(movie_filenames)
    /\ LET movie == movie_filenames[qi]
       IN  \E guess \in Guesses :
              LET guessit_query == ObtainGuessitQuery(guess, movie, Language)
              IN  \/ /\ qpc' = "raised"
                     /\ pending' = TRUE
                     /\ UNCHANGED <<rpcLog, result, qi>>
                  \/ \E h \in HashValues, data \in ResponseData :
                        /\ rpcLog' = Append(rpcLog,
                              LogEntry("SearchSubtitles", token,
                                 <<guessit_query,
                                   ObtainMovieHashQuery(h, 2 * BlockSize, Language)>>, TRUE, data))
                        /\ result' = IF data # NoData
                                     THEN [m \in DOMAIN result \cup {movie} |->
                                             IF m = movie
                                             THEN FilterBadResults(data, guessit_query)
                                             ELSE result[m]]
                                     ELSE result
                        /\ qi' = qi + 1
                        /\ UNCHANGED <<qpc, pending>>
    /\ UNCHANGED <<movie_filenames, token, yielded>>
    /\ UNCHANGED notQuery

\* one iteration of "for movie in movie_filenames": the two queries
\* are built, SearchSubtitles is called, its results are filtered and stored
QIterate ==
    /\ qpc = "loop"
    /\ qi <= Len(movie_filenames)
    /\ LET movie == movie_filenames[qi]
       IN  \E guess \in Guesses :
              LET guessit_query == ObtainGuessitQuery(guess, movie, Language)
              IN  \* calculate_hash_for_file raises (open, read, seek, unpack)
                  \/ /\ qpc' = "finally"
                     /\ pending' = TRUE
                     /\ UNCHANGED <<rpcLog, result, qi>>
                  \/ \E h \in HashValues :
                        LET search_queries ==
                                <<guessit_query,
                                  ObtainMovieHashQuery(h, 2 * BlockSize, Language)>>
                        IN  \* server.SearchSubtitles raises
                            \/ /\ rpcLog' = Append(rpcLog,
                                    LogEntry("SearchSubtitles", token, search_queries, FALSE, NoData))
                               /\ qpc' = "finally"
                               /\ pending' = TRUE
                               /\ UNCHANGED <<result, qi>>
                            \* server.SearchSubtitles returns
                            \/ \E data \in ResponseData :
                                  /\ rpcLog' = Append(rpcLog,
                                        LogEntry("SearchSubtitles", token, search_queries, TRUE, data))
                                  /\ result' =
                                        IF data # NoData
                                        THEN [m \in DOMAIN result \cup {movie} |->
                                                IF m = movie
                                                THEN FilterBadResults(data, guessit_query)
                                                ELSE result[m]]
                                        ELSE result
                                  /\ qi' = qi + 1
                                  /\ UNCHANGED <<qpc, pending>>
    /\ UNCHANGED <<movie_filenames, token, yielded>>
    /\ UNCHANGED notQuery

\* the loop is over: return result, through the finally block
QLoopEnd ==
    /\ qpc = "loop"
    /\ qi > Len(movie_filenames)
    /\ qpc' = "finally"
    /\ UNCHANGED <<movie_filenames, token, rpcLog, qi, result, pending, yielded>>
    /\ UNCHANGED notQuery

\* finally: server.LogOut(token)
QLogOut ==
    /\ qpc = "finally"
    /\ \/ /\ rpcLog' = Append(rpcLog, LogEntry("LogOut", token, <<>>, TRUE, NoData))
          /\ qpc' = IF pending THEN "raised" ELSE "returned"
          /\ pending' = pending
       \/ \* LogOut itself raises
          /\ rpcLog' = Append(rpcLog, LogEntry("LogOut", token, <<>>, FALSE, NoData))
          /\ qpc' = "raised"
          /\ pending' = TRUE
    /\ UNCHANGED <<movie_filenames, token, qi, result, yielded>>
    /\ UNCHANGED notQuery

\* one iteration of the loop of find_subtitles
FindSubtitlesYield ==
    /\ qpc = "returned"
    /\ Len(yielded) < Len(movie_filenames)
    /\ LET movie == movie_filenames[Len(yielded) + 1]
           search_results == IF movie \in DOMAIN result
                             THEN result[movie] ELSE <<>>
       IN  yielded' = Append(yielded,
              IF search_results # <<>>
              THEN <<movie, search_results[1].SubDownloadLink,
                     <<".">> \o search_results[1].SubFormat>>
              ELSE <<movie, None, None>>)
    /\ UNCHANGED <<qpc, movie_filenames, token, rpcLog, qi, result, pending>>
    /\ UNCHANGED notQuery

QueryNext ==
    \/ QLogIn
    \/ QIterate
    \/ QLoopEnd
    \/ QLogOut
    \/ FindSubtitlesYield

SpecQuery == QueryInit /\ [][QueryNext]_vars

(***************************************************************************)
(* Properties of query_open_subtitles and find_subtitles.                  *)
(***************************************************************************)
IsSearch(e) == e.op = "SearchSubtitles"
IsLogIn(e) == e.op = "LogIn"
IsLogOut(e) == e.op = "LogOut"

\* the SearchSubtitles calls the server received, in order
Searches == SelectSeq(rpcLog, IsSearch)

\* whether a result is for the season and episode of a name query that
\* carries both (every result is, for a query that lacks one of them)
Acceptable(r, q) ==
    ("season" \in DOMAIN q /\ "episode" \in DOMAIN q) =>
        /\ PyIntOfStr(r.SeriesSeason) = q.season
        /\ PyIntOfStr(r.SeriesEpisode) = q.episode

\* the positions in data of the results that are not to be discarded
KeptAt(data, q) == {j \in 1..Len(data) : Acceptable(data[j], q)}

MinOf(S) == CHOOSE j \in S : \A i \in S : j <= i

\* C4: the results whose (season, episode) differ from those of a name
\* query carrying both are discarded; the movie's match is the first
\* remaining result in the order of the returned list, and the no-match
\* outcome (None, None) when nothing remains.
Thm_C4 ==
    /\ \A k \in 1..Len(Searches) :
          Searches[k].answered =>
              LET movie == movie_filenames[k]
                  data  == Searches[k].data
                  kept  == KeptAt(data, Searches[k].queries[1])
              IN  IF data = <<>> THEN movie \notin DOMAIN result
                  ELSE /\ movie \in DOMAIN result
                       /\ Len(result[movie]) = Cardinality(kept)
                       /\ \A j \in 1..Len(result[movie]) :
                             Acceptable(result[movie][j], Searches[k].queries[1])
    /\ \A k \in 1..Len(yielded) :
          LET movie == movie_filenames[k]
              data  == Searches[k].data
              kept  == KeptAt(data, Searches[k].queries[1])
          IN  yielded[k] =
                 IF kept = {} THEN <<movie, None, None>>
                 ELSE <<movie, data[MinOf(kept)].SubDownloadLink,
                        <<".">> \o data[MinOf(kept)].SubFormat>>

\* a movie whose match is the second result of the list, the first having
\* been discarded, and a movie left without a match by the filter
Witness_C4 ==
    /\ \E k \in 1..Len(yielded) :
          /\ Len(Searches[k].data) = 2
          /\ yielded[k][2] = Searches[k].data[2].SubDownloadLink
          /\ yielded[k][2] # Searches[k].data[1].SubDownloadLink
    /\ \E k \in 1..Len(yielded) :
          /\ Searches[k].data # <<>>
          /\ yielded[k][2] = None

Thm_C7 ==
    /\ qpc \in {"loop", "finally"} => ENABLED QueryNext
    /\ (qpc \in {"returned", "raised"} /\ rpcLog # <<>>) =>
          /\ Len(SelectSeq(rpcLog, IsLogOut)) = 1
          /\ IsLogOut(rpcLog[Len(rpcLog)])
          /\ rpcLog[Len(rpcLog)].token = rpcLog[1].token
          /\ rpcLog[1].token = token
    /\ Len(SelectSeq(rpcLog, IsLogOut)) <= 1
    /\ \A i, j \in 1..Len(rpcLog) :
          (i < j /\ IsLogOut(rpcLog[i])) => ~IsSearch(rpcLog[j])

\* the hash of the second movie raised, after the search for the first, and
\* the logout was made
Witness_C7 ==
    /\ qpc = "raised"
    /\ Len(movie_filenames) >= 2
    /\ Len(Searches) = 1
    /\ Searches[1].answered
    /\ IsLogOut(rpcLog[Len(rpcLog)])
    /\ rpcLog[Len(rpcLog)].answered

(***************************************************************************)
(* find_movie_files(input_names, recursive): a generator that calls itself *)
(* for sub-directories; stack holds the frames of the nested generators.   *)
(***************************************************************************)
extensions ==
    { <<".", "a", "v", "i">>, <<".", "m", "p", "4">>,
      <<".", "m", "p", "g">>, <<".", "m", "k", "v">> }

\* the file system of the discovery: a.mkv, d/b.avi, d/c.txt, d/s/e.mp4
TreeFiles ==
    { <<"a", ".", "m", "k", "v">>,
      <<"d", "/", "b", ".", "a", "v", "i">>,
      <<"d", "/", "c", ".", "t", "x", "t">>,
      <<"d", "/", "s", "/", "e", ".", "m", "p", "4">> }
TreeDirs == { <<"d">>, <<"d", "/", "s">> }

\* the existing paths given on the command line
InputNames ==
    { <<"a", ".", "m", "k", "v">>, <<"d", "/", "b", ".", "a", "v", "i">>,
      <<"d">>, <<"d", "/", "s">> }

\* name[-n:]
PySuffix(name, n) == SubSeq(name, Max(1, Len(name) - n + 1), Len(name))

\* the entries of directory d, as a set
DirEntries(d) ==
    { OsPathBasename(p) : p \in { q \in files \cup dirs : OsPathDirname(q) = d } }

\* os.listdir(d): the entries in any order
OsListdir(d) ==
    LET S == DirEntries(d)
    IN  { s \in [1..Cardinality(S) -> S] : \A i, j \in 1..Cardinality(S) : s[i] = s[j] => i = j }

Frame(inputs) ==
    [inputs |-> inputs, idx |-> 1, listing |-> FALSE, names |-> <<>>, returned |-> {}]

Top == stack[Len(stack)]
SetTop(f) == [stack EXCEPT ![Len(stack)] = f]

FindInit ==
    /\ HashIdle
    /\ ResolveIdle
    /\ QueryIdle
    /\ MainIdle
    /\ files = TreeFiles
    /\ dirs = TreeDirs
    /\ fpc = "run"
    /\ input_names \in SeqsUpTo(InputNames, MaxInputs) \ { <<>> }
    /\ recursive \in BOOLEAN
    /\ stack = <<Frame(input_names)>>
    /\ found = <<>>

\* "for input_name in input_names": a file not yet returned is yielded,
\* anything else is listed as a directory
FindInput ==
    /\ fpc = "run"
    /\ stack # <<>>
    /\ ~Top.listing
    /\ Top.idx <= Len(Top.inputs)
    /\ LET input_name == Top.inputs[Top.idx]
       IN  IF OsPathIsfile(input_name) /\ input_name \notin Top.returned
           THEN /\ found' = Append(found, input_name)
                /\ stack' = SetTop([Top EXCEPT !.returned = @ \cup {input_name},
                                               !.idx = @ + 1])
                /\ fpc' = fpc
           ELSE IF OsPathIsdir(input_name)
           THEN /\ \E names \in OsListdir(input_name) :
                      stack' = SetTop([Top EXCEPT !.listing = TRUE, !.names = names])
                /\ UNCHANGED <<found, fpc>>
           ELSE \* os.listdir raises OSError on what is not a directory
                /\ fpc' = "raised"
                /\ UNCHANGED <<found, stack>>
    /\ UNCHANGED <<input_names, recursive, files, dirs>>
    /\ UNCHANGED notFind

\* "for name in names"
FindName ==
    /\ fpc = "run"
    /\ stack # <<>>
    /\ Top.listing
    /\ Top.names # <<>>
    /\ LET name == Head(Top.names)
           path == OsPathJoin(Top.inputs[Top.idx], name)
           rest == [Top EXCEPT !.names = Tail(@)]
       IN  IF PySuffix(name, 4) \in extensions
           THEN IF path \notin Top.returned
                THEN /\ found' = Append(found, path)
                     /\ stack' = SetTop([rest EXCEPT !.returned = @ \cup {path}])
                ELSE /\ found' = found
                     /\ stack' = SetTop(rest)
           ELSE IF OsPathIsdir(path) /\ recursive
           THEN \* for x in find_movie_files([result], recursive): yield x
                /\ found' = found
                /\ stack' = Append(SetTop(rest), Frame(<<path>>))
           ELSE /\ found' = found
                /\ stack' = SetTop(rest)
    /\ UNCHANGED <<fpc, input_names, recursive, files, dirs>>
    /\ UNCHANGED notFind

\* the names of a directory are exhausted: on to the next input
FindNamesDone ==
    /\ fpc = "run"
    /\ stack # <<>>
    /\ Top.listing
    /\ Top.names = <<>>
    /\ stack' = SetTop([Top EXCEPT !.listing = FALSE, !.idx = @ + 1])
    /\ UNCHANGED <<fpc, found, input_names, recursive, files, dirs>>
    /\ UNCHANGED notFind

\* a generator is exhausted
FindReturn ==
    /\ fpc = "run"
    /\ stack # <<>>
    /\ ~Top.listing
    /\ Top.idx > Len(Top.inputs)
    /\ stack' = SubSeq(stack, 1, Len(stack) - 1)
    /\ fpc' = IF Len(stack) = 1 THEN "done" ELSE fpc
    /\ UNCHANGED <<found, input_names, recursive, files, dirs>>
    /\ UNCHANGED notFind

FindNext ==
    \/ FindInput
    \/ FindName
    \/ FindNamesDone
    \/ FindReturn

SpecFind == FindInit /\ [][FindNext]_vars

\* C5: for every sequence of existing inputs and either value of recursive
\* the enumeration completes without error and yields no path twice.
CE_C5 ==
    /\ fpc # "raised"
    /\ \A i, j \in 1..Len(found) : found[i] = found[j] => i = j

(***************************************************************************)
(* main, from the query on: the statuses and the resolution of the         *)
(* subtitle names, the downloads, the merges and the report of failures.   *)
(***************************************************************************)
\* the characters of the model's paths, in the order of their code points
CharOrder ==
    <<".", "/", "0", "1", "2", "3", "4", "K", "M", "V", "a", "b", "c", "d", "e",
      "g", "i", "k", "m", "n", "p", "r", "s", "t", "u", "v", "x">>

Ord(c) == CHOOSE i \in 1..Len(CharOrder) : CharOrder[i] = c

\* a < b for two strings
RECURSIVE StrLess(_, _)
StrLess(a, b) ==
    IF b = <<>> THEN FALSE
    ELSE IF a = <<>> THEN TRUE
    ELSE IF Head(a) = Head(b) THEN StrLess(Tail(a), Tail(b))
    ELSE Ord(Head(a)) < Ord(Head(b))

\* sorted(items) for tuples whose first components (the movie names) differ
RECURSIVE Sorted(_)
Sorted(items) ==
    IF items = <<>> THEN <<>>
    ELSE LET IsLeast(i) == \A j \in 1..Len(items) : j # i => StrLess(items[i][1], items[j][1])
             i == CHOOSE k \in 1..Len(items) : IsLeast(k)
         IN  <<items[i]>> \o Sorted(SubSeq(items, 1, i - 1) \o SubSeq(items, i + 1, Len(items)))

\* c.lower()
LowerChar(c) ==
    IF c = "M" THEN "m" ELSE IF c = "K" THEN "k" ELSE IF c = "V" THEN "v" ELSE c

PyLower(s) == [i \in 1..Len(s) |-> LowerChar(s[i])]

Repeat(c, n) == [i \in 1..n |-> c]

StatusColumn == 70
HeaderWidth == 80

\* the line print_status(text, status) prints
PrintStatus(text, status) ==
    text \o Repeat(" ", Max(2, StatusColumn - Len(text))) \o status

StatusOK == <<"O", "K">>
StatusNoMatch == <<"N","o"," ","m","a","t","c","h","e","s"," ","f","o","u","n","d",".">>
StatusDone == <<"D", "O", "N", "E">>
StatusError == <<"E", "R", "R", "O", "R">>
StatusSkipped == <<"s", "k", "i", "p", "p", "e", "d">>

Mkv == <<".", "m", "k", "v">>

\* the movies main may be run on: two that differ only in their extension,
\* and two Matroska files
MainMovies ==
    << <<"n", ".", "M", "K", "V">>,
       <<"n", ".", "m", "k", "v">>,
       <<"m", ".", "m", "p", "4">>,
       <<"m", ".", "a", "v", "i">> >>

\* the subtitle files that may exist before the run
OldSubtitles ==
    { <<"m", ".", "s", "r", "t">>, <<"m", ".", "e", "n", "g", ".", "s", "r", "t">> }

SubtitleUrl == <<"u", "1">>
Srt == <<".", "s", "r", "t">>

\* what mkvmerge may print when it fails
MergeOutputs == { <<"e", "1">>, <<"e", "2">> }

RECURSIVE SubSeqsOf(_)
SubSeqsOf(s) ==
    IF s = <<>> THEN { <<>> }
    ELSE LET rest == SubSeqsOf(Tail(s))
         IN  rest \cup { <<Head(s)>> \o r : r \in rest }

MainInit ==
    /\ HashIdle
    /\ QueryIdle
    /\ FindIdle
    /\ rpc = "idle"
    /\ movie_filename = <<>>
    /\ subtitle_ext = <<>>
    /\ subtitle_filename = <<>>
    /\ language = Language
    /\ mpc = "start"
    /\ input_filenames \in SubSeqsOf(MainMovies)
    /\ mkv \in BOOLEAN
    /\ \E old \in SUBSET OldSubtitles :
          files = {input_filenames[i] : i \in 1..Len(input_filenames)} \cup old
    /\ dirs = {}
    /\ subtitles = <<>>
    /\ mi = 0
    /\ matches = <<>>
    /\ downloads = <<>>
    /\ merges = <<>>
    /\ failures = <<>>
    /\ stream = <<>>
    /\ exit_code = -1

mainRest == <<rpc, movie_filename, subtitle_ext, subtitle_filename, language>>

\* "if not input_filenames: return 1", then sorted(find_subtitles(...)):
\* each movie comes back with a link and an extension, or with None, None
MainFind ==
    /\ mpc = "start"
    /\ IF input_filenames = <<>>
       THEN /\ exit_code' = 1
            /\ mpc' = "returned"
            /\ UNCHANGED <<subtitles, mi>>
       ELSE \/ \E matched \in SUBSET (1..Len(input_filenames)) :
                 /\ subtitles' = Sorted([i \in 1..Len(input_filenames) |->
                                     IF i \in matched
                                     THEN <<input_filenames[i], SubtitleUrl, Srt>>
                                     ELSE <<input_filenames[i], None, None>>])
                 /\ mi' = 1
                 /\ mpc' = "status"
                 /\ exit_code' = exit_code
            \/ \* query_open_subtitles raises
               /\ mpc' = "raised"
               /\ UNCHANGED <<subtitles, mi, exit_code>>
    /\ UNCHANGED <<input_filenames, mkv, matches, downloads, merges, failures, stream>>
    /\ UNCHANGED <<files, dirs, mainRest>>
    /\ UNCHANGED notMain

\* one iteration of the first loop: the status line, and for a match the
\* subtitle file name
MainStatus ==
    /\ mpc = "status"
    /\ mi <= Len(subtitles)
    /\ LET movie == subtitles[mi][1]
           url   == subtitles[mi][2]
           ext   == subtitles[mi][3]
       IN  /\ stream' = Append(stream,
                  PrintStatus(<<"-", " ">> \o OsPathBasename(movie),
                              IF url # None THEN StatusOK ELSE StatusNoMatch))
           /\ matches' = IF url # None
                         THEN Append(matches,
                                 <<movie, url, ext, ObtainSubtitleFilename(movie, language, ext)>>)
                         ELSE matches
    /\ mi' = mi + 1
    /\ UNCHANGED <<mpc, input_filenames, mkv, subtitles, downloads, merges, failures, exit_code>>
    /\ UNCHANGED <<files, dirs, mainRest>>
    /\ UNCHANGED notMain

\* "if not matches: return 0"
MainMatched ==
    /\ mpc = "status"
    /\ mi > Len(subtitles)
    /\ IF matches = <<>>
       THEN /\ exit_code' = 0
            /\ mpc' = "returned"
       ELSE /\ exit_code' = exit_code
            /\ mpc' = "download"
    /\ mi' = 1
    /\ UNCHANGED <<input_filenames, mkv, subtitles, matches, downloads, merges, failures, stream>>
    /\ UNCHANGED <<files, dirs, mainRest>>
    /\ UNCHANGED notMain

\* one iteration of the download loop: download_subtitle writes the file
MainDownload ==
    /\ mpc = "download"
    /\ mi <= Len(matches)
    /\ LET target == matches[mi][4]
       IN  \/ /\ target \notin dirs
              /\ files' = files \cup {target}
              /\ downloads' = Append(downloads, target)
              /\ stream' = Append(stream,
                     PrintStatus(<<" ", "-", " ">> \o OsPathBasename(target), StatusDone))
              /\ mi' = mi + 1
              /\ mpc' = mpc
           \/ \* urlopen, gzip or open raises
              /\ mpc' = "raised"
              /\ UNCHANGED <<files, downloads, stream, mi>>
    /\ UNCHANGED <<input_filenames, mkv, subtitles, matches, merges, failures, exit_code>>
    /\ UNCHANGED <<dirs, mainRest>>
    /\ UNCHANGED notMain

\* "if config.mkv:" after the downloads
MainDownloaded ==
    /\ mpc = "download"
    /\ mi > Len(matches)
    /\ IF mkv
       THEN /\ mpc' = "merge"
            /\ exit_code' = exit_code
       ELSE /\ mpc' = "returned"
            /\ exit_code' = 0
    /\ mi' = 1
    /\ failures' = <<>>
    /\ UNCHANGED <<input_filenames, mkv, subtitles, matches, downloads, merges, stream>>
    /\ UNCHANGED <<files, dirs, mainRest>>
    /\ UNCHANGED notMain

\* a merge loop that ends at the first failure
MainMergeStopAtFailure ==
    /\ mpc = "merge"
    /\ mi <= Len(matches)
    /\ LET movie == matches[mi][1]
           out   == OsPathSplitext(movie)[1] \o Mkv
       IN  IF PyLower(OsPathSplitext(movie)[2]) # Mkv
           THEN \/ /\ merges' = Append(merges, [movie |-> movie, ok |-> TRUE, output |-> <<>>])
                   /\ files' = files \cup {out}
                   /\ failures' = failures
                   /\ stream' = Append(stream,
                          PrintStatus(<<" ", "-", " ">> \o OsPathBasename(out), StatusDone))
                   /\ mi' = mi + 1
                \/ \E output \in MergeOutputs :
                      /\ merges' = Append(merges, [movie |-> movie, ok |-> FALSE, output |-> output])
                      /\ files' = files
                      /\ failures' = Append(failures, <<movie, output>>)
                      /\ stream' = Append(stream,
                             PrintStatus(<<" ", "-", " ">> \o OsPathBasename(out), StatusError))
                      /\ mi' = Len(matches) + 1
           ELSE /\ stream' = Append(stream,
                       PrintStatus(<<" ", "-", " ">> \o OsPathBasename(movie), StatusSkipped))
                /\ mi' = mi + 1
                /\ UNCHANGED <<merges, files, failures>>
    /\ UNCHANGED <<mpc, input_filenames, mkv, subtitles, matches, downloads, exit_code>>
    /\ UNCHANGED <<dirs, mainRest>>
    /\ UNCHANGED notMain

\* one iteration of the merge loop: embed_mkv for a movie that is not a
\* Matroska file, its failure recorded
MainMerge ==
    /\ mpc = "merge"
    /\ mi <= Len(matches)
    /\ LET movie == matches[mi][1]
           out   == OsPathSplitext(movie)[1] \o Mkv
       IN  IF PyLower(OsPathSplitext(movie)[2]) # Mkv
           THEN \/ \* embed_mkv returns True, ''
                   /\ merges' = Append(merges, [movie |-> movie, ok |-> TRUE, output |-> <<>>])
                   /\ files' = files \cup {out}
                   /\ failures' = failures
                   /\ stream' = Append(stream,
                          PrintStatus(<<" ", "-", " ">> \o OsPathBasename(out), StatusDone))
                \/ \* embed_mkv returns False, e.output
                   \E output \in MergeOutputs :
                      /\ merges' = Append(merges, [movie |-> movie, ok |-> FALSE, output |-> output])
                      /\ files' = files
                      /\ failures' = Append(failures, <<movie, output>>)
                      /\ stream' = Append(stream,
                             PrintStatus(<<" ", "-", " ">> \o OsPathBasename(out), StatusError))
           ELSE /\ stream' = Append(stream,
                       PrintStatus(<<" ", "-", " ">> \o OsPathBasename(movie), StatusSkipped))
                /\ UNCHANGED <<merges, files, failures>>
    /\ mi' = mi + 1
    /\ UNCHANGED <<mpc, input_filenames, mkv, subtitles, matches, downloads, exit_code>>
    /\ UNCHANGED <<dirs, mainRest>>
    /\ UNCHANGED notMain

\* the lines of the report of one failure
FailureLines(f) == << <<":", "{">> \o f[1] \o <<"}", ":">>, f[2] >>

\* "if failures:" the header and the failures are printed; return 0
MainReport ==
    /\ mpc = "merge"
    /\ mi > Len(matches)
    /\ stream' = IF failures # <<>>
                 THEN stream \o <<Repeat("_", HeaderWidth), None>>
                      \o Concat([i \in 1..Len(failures) |-> FailureLines(failures[i])])
                 ELSE stream
    /\ exit_code' = 0
    /\ mpc' = "returned"
    /\ UNCHANGED <<input_filenames, mkv, subtitles, mi, matches, downloads, merges, failures>>
    /\ UNCHANGED <<files, dirs, mainRest>>
    /\ UNCHANGED notMain

MainNext ==
    \/ MainFind
    \/ MainStatus
    \/ MainMatched
    \/ MainDownload
    \/ MainDownloaded
    \/ MainMerge
    \/ MainReport

SpecMain == MainInit /\ [][MainNext]_vars

(***************************************************************************)
(* Properties of main.                                                     *)
(***************************************************************************)
\* the movies of the model that are Matroska files, whatever the case of
\* their extension
IsMatroska(movie) == movie \in {MainMovies[1], MainMovies[2]}

NotMatroska(match) == ~IsMatroska(match[1])

\* the merge loop has been entered, and main has not left it by an error
MergeReached == mkv /\ matches # <<>> /\ mpc \in {"merge", "returned"}

\* the matches the merge loop has dealt with so far
MergeHandled ==
    IF mpc = "merge" THEN SubSeq(matches, 1, mi - 1) ELSE matches

IsFailed(m) == ~m.ok

IsReportLine(line) == Len(line) >= 2 /\ line[1] = ":" /\ line[2] = "{"

\* C8: with merging enabled, every matched movie that is not a Matroska
\* file gets exactly one merge attempt, whatever the outcome of the others;
\* every failure is in the list failures with the movie and the output of
\* the tool; the failures are printed after all the attempts only, and
\* main returns 0.
Thm_C8 ==
    MergeReached =>
        LET due    == SelectSeq(MergeHandled, NotMatroska)
            failed == SelectSeq(merges, IsFailed)
        IN  /\ Len(merges) = Len(due)
            /\ \A k \in 1..Len(merges) : merges[k].movie = due[k][1]
            /\ Len(failures) = Len(failed)
            /\ \A k \in 1..Len(failures) :
                  failures[k] = <<failed[k].movie, failed[k].output>>
            /\ mpc = "merge" => SelectSeq(stream, IsReportLine) = <<>>
            /\ mpc = "returned" =>
                  /\ exit_code = 0
                  /\ Len(SelectSeq(stream, IsReportLine)) = Len(failures)
                  /\ \A k \in 1..Len(failures) :
                        /\ stream[Len(stream) - 2 * (Len(failures) - k) - 1]
                              = <<":", "{">> \o failures[k][1] \o <<"}", ":">>
                        /\ stream[Len(stream) - 2 * (Len(failures) - k)] = failures[k][2]

\* the merge of the first movie failed, the second movie was merged, a
\* Matroska file was skipped, and main returned
Witness_C8 ==
    /\ mpc = "returned"
    /\ Len(matches) >= 3
    /\ Len(merges) = 2
    /\ ~merges[1].ok
    /\ merges[2].ok
    /\ Len(failures) = 1
    /\ exit_code = 0

\* C10: any two matches of a run have different subtitle paths, and no
\* download writes to a path an earlier download of the run wrote to.
CE_C10 ==
    /\ \A i, j \in 1..Len(matches) : matches[i][4] = matches[j][4] => i = j
    /\ \A i, j \in 1..Len(downloads) : downloads[i] = downloads[j] => i = j

====
